---- MODULE Spec2Model ----
(***************************************************************************)
(* Model of backend/app.py: the /questions and /evaluate handlers on the   *)
(* request threads of the server, the text pipeline behind /evaluate       *)
(* (preprocess_text, check_plagiarism, calculate_english_quality) and the  *)
(* submissions file.                                                       *)
(*                                                                         *)
(* Threads.  app.run serves every request on a thread of its own.  The     *)
(* only thing the threads share is the submissions file, so a step of a    *)
(* thread is the code between two accesses to the file.                    *)
(*                                                                         *)
(* Texts.  A string is modelled by its whitespace-split words              *)
(* (str.split()); a JSON value that is not a string is a value of another  *)
(* kind, on which .lower() raises.                                         *)
(*                                                                         *)
(* Numbers.  Python floats are IEEE-754 doubles and are modelled bit for   *)
(* bit: see the section on arithmetic.                                     *)
(***************************************************************************)
EXTENDS Integers, Sequences, FiniteSets, TLC

VARIABLES file, stored, now, n_success, wk

vars == <<file, stored, now, n_success, wk>>

\* Requests to /evaluate received in one behaviour.
MaxRequests == 2

\* Request threads of the server: every request is served on a thread of its
\* own, so two threads are two requests in progress at once.
Workers == {"w1", "w2"}

-----------------------------------------------------------------------------
(* JSON values of the 'answer' field *)

Str(ws) == [kind |-> "string", words |-> ws]

JsonNumber == [kind |-> "number", words |-> <<>>]

-----------------------------------------------------------------------------
(* Data: SAMPLE_QUESTIONS, the NLTK English stop words, str.lower(), the    *)
(* vectorizer's token pattern, the order of its vocabulary, the logarithm   *)
(* of its idf                                                               *)

-----------------------------------------------------------------------------
(* IEEE-754 binary64 arithmetic.  numpy, scipy and Python compute every      *)
(* number of the pipeline in doubles, and whether a score reaches 100 or 30  *)
(* can depend on their rounding, so the model computes the same doubles.     *)
(*                                                                           *)
(* A double x > 0 is the record [e, f] with x = F * 2^(e - 56), where        *)
(*   F = f[1]*Base^3 + f[2]*Base^2 + f[3]*Base + f[4],  2^55 <= F < 2^56,    *)
(* is the 53-bit significand followed by three zero bits, so that F / 2^56   *)
(* and e are what math.frexp(x) returns; 0.0 is FZero.  Every operation      *)
(* rounds its exact result to nearest, ties to even.  The pipeline only      *)
(* produces finite, non-negative, normal numbers: there is no sign, no       *)
(* infinity, no NaN and no subnormal number.  Operations are not fused.      *)
(* Numbers of several limbs are tuples, most significant limb first.         *)

\* The base of a limb, 2^14.
Base == 16384

FZero == [e |-> 0, f |-> <<0, 0, 0, 0>>]

IsZero(a) == a.f[1] = 0

\* x < y for two numbers of four limbs.
LimbsLess(x, y) ==
    \/ x[1] < y[1]
    \/ /\ x[1] = y[1]
       /\ \/ x[2] < y[2]
          \/ /\ x[2] = y[2]
             /\ \/ x[3] < y[3]
                \/ x[3] = y[3] /\ x[4] < y[4]

\* a < b on doubles.
FLess(a, b) ==
    IF IsZero(b) THEN FALSE
    ELSE IF IsZero(a) THEN TRUE
    ELSE a.e < b.e \/ (a.e = b.e /\ LimbsLess(a.f, b.f))

\* a <= b on doubles.
FLessEq(a, b) == ~FLess(b, a)

\* The limbs of the number whose columns hold the sums cols, lowest column
\* last: every column keeps its value modulo Base and carries the rest.  The
\* result has one limb more than cols.
RECURSIVE Carried(_, _, _)
Carried(cols, carry, out) ==
    IF cols = <<>> THEN <<carry>> \o out
    ELSE Carried(SubSeq(cols, 1, Len(cols) - 1),
                 (cols[Len(cols)] + carry) \div Base,
                 <<(cols[Len(cols)] + carry) % Base>> \o out)

\* z / 2 for five limbs z with z[1] <= 1, as four limbs (the bit z[5] % 2 is
\* dropped).
HalfLimbs(z) ==
    <<(z[1] * Base + z[2]) \div 2,
      (z[2] % 2) * (Base \div 2) + z[3] \div 2,
      (z[3] % 2) * (Base \div 2) + z[4] \div 2,
      (z[4] % 2) * (Base \div 2) + z[5] \div 2>>

\* Rounding to the 53-bit significand: x holds the 56 leading bits of the exact
\* result (2^55 <= x < 2^56 as four limbs), sticky tells whether any lower bit
\* of it is set, and the value is x * 2^(e - 56).
RoundPack(x, sticky, e) ==
    LET g   == x[4] % 8
        odd == (x[4] \div 8) % 2 = 1
        up  == g > 4 \/ (g = 4 /\ (sticky \/ odd))
        l4  == x[4] - g + (IF up THEN 8 ELSE 0)
        l3  == x[3] + l4 \div Base
        l2  == x[2] + l3 \div Base
        l1  == x[1] + l2 \div Base
    IN IF l1 = Base
       THEN [e |-> e + 1, f |-> <<Base \div 2, 0, 0, 0>>]
       ELSE [e |-> e, f |-> <<l1, l2 % Base, l3 % Base, l4 % Base>>]

\* The number of bits of n.
RECURSIVE BitLen(_)
BitLen(n) == IF n = 0 THEN 0 ELSE 1 + BitLen(n \div 2)

\* float(n) for an integer 0 <= n < Base.
FromInt(n) ==
    IF n = 0 THEN FZero
    ELSE [e |-> BitLen(n), f |-> <<n * 2^(14 - BitLen(n)), 0, 0, 0>>]

\* x * y for two numbers of four limbs, as eight limbs.
Product(x, y) ==
    Carried(<<x[1] * y[1],
              x[1] * y[2] + x[2] * y[1],
              x[1] * y[3] + x[2] * y[2] + x[3] * y[1],
              x[1] * y[4] + x[2] * y[3] + x[3] * y[2] + x[4] * y[1],
              x[2] * y[4] + x[3] * y[3] + x[4] * y[2],
              x[3] * y[4] + x[4] * y[3],
              x[4] * y[4]>>, 0, <<>>)

\* The double of the 112-bit product p (2^110 <= p < 2^112) times 2^(e - 112).
MulRound(p, e) ==
    IF p[1] >= Base \div 2
    THEN RoundPack(<<p[1], p[2], p[3], p[4]>>,
                   p[5] # 0 \/ p[6] # 0 \/ p[7] # 0 \/ p[8] # 0, e)
    ELSE RoundPack(<<2 * p[1] + p[2] \div (Base \div 2),
                     2 * (p[2] % (Base \div 2)) + p[3] \div (Base \div 2),
                     2 * (p[3] % (Base \div 2)) + p[4] \div (Base \div 2),
                     2 * (p[4] % (Base \div 2)) + p[5] \div (Base \div 2)>>,
                   p[5] % (Base \div 2) # 0 \/ p[6] # 0 \/ p[7] # 0 \/ p[8] # 0,
                   e - 1)

\* a * b.
FMul(a, b) ==
    IF IsZero(a) \/ IsZero(b) THEN FZero
    ELSE MulRound(Product(a.f, b.f), a.e + b.e)

\* The right shift of the four limbs y by k limbs and then by the bits that
\* divide by p (0 <= k <= 4, p = 2^r, r < 14), with the bits shifted out
\* summarised in sticky.
ShiftLimbs(E, k, p) ==
    [x |-> <<E[6 - k] \div p + (E[5 - k] % p) * (Base \div p),
             E[7 - k] \div p + (E[6 - k] % p) * (Base \div p),
             E[8 - k] \div p + (E[7 - k] % p) * (Base \div p),
             E[9 - k] \div p + (E[8 - k] % p) * (Base \div p)>>,
     sticky |-> E[9 - k] % p # 0 \/ \E j \in (10 - k)..9 : E[j] # 0]

\* y shifted right by d bits, 0 <= d <= 56.
ShiftRight(y, d) ==
    ShiftLimbs(<<0, 0, 0, 0, 0, y[1], y[2], y[3], y[4]>>, d \div 14, 2^(d % 14))

\* The double of the sum z (five limbs, 2^55 <= z < 2^57) times 2^(e - 56).
SumRound(z, sticky, e) ==
    IF z[1] = 1
    THEN RoundPack(HalfLimbs(z), sticky \/ z[5] % 2 = 1, e + 1)
    ELSE RoundPack(<<z[2], z[3], z[4], z[5]>>, sticky, e)

\* a + b where s is the significand of b shifted to the exponent of a.
AddShifted(a, s) ==
    SumRound(Carried(<<a.f[1] + s.x[1], a.f[2] + s.x[2],
                       a.f[3] + s.x[3], a.f[4] + s.x[4]>>, 0, <<>>),
             s.sticky, a.e)

\* a + b for a.e >= b.e, both non-zero.
FAddAligned(a, b) ==
    IF a.e - b.e > 56 THEN a
    ELSE AddShifted(a, ShiftRight(b.f, a.e - b.e))

\* a + b.
FAdd(a, b) ==
    IF IsZero(a) THEN b
    ELSE IF IsZero(b) THEN a
    ELSE IF a.e < b.e THEN FAddAligned(b, a)
    ELSE FAddAligned(a, b)

\* x - y for two numbers of five limbs, x >= y.
Sub5(x, y) ==
    LET d5 == x[5] - y[5]
        d4 == x[4] - y[4] - (IF d5 < 0 THEN 1 ELSE 0)
        d3 == x[3] - y[3] - (IF d4 < 0 THEN 1 ELSE 0)
        d2 == x[2] - y[2] - (IF d3 < 0 THEN 1 ELSE 0)
        d1 == x[1] - y[1] - (IF d2 < 0 THEN 1 ELSE 0)
    IN <<d1, d2 % Base, d3 % Base, d4 % Base, d5 % Base>>

\* x < y for two numbers of five limbs.
Less5(x, y) ==
    \/ x[1] < y[1]
    \/ x[1] = y[1] /\ LimbsLess(<<x[2], x[3], x[4], x[5]>>, <<y[2], y[3], y[4], y[5]>>)

\* The four low limbs of five.
Low4(x) == <<x[2], x[3], x[4], x[5]>>

\* v * q for four limbs v and one limb q, as five limbs.
MulLimb(v, q) == Carried(<<v[1] * q, v[2] * q, v[3] * q, v[4] * q>>, 0, <<>>)

\* The trial quotient limb q is at most two above the true one: lower it until
\* t = q * v fits under n.
RECURSIVE FixQuotient(_, _, _, _)
FixQuotient(n, v, q, t) ==
    IF Less5(n, t)
    THEN FixQuotient(n, v, q - 1, Sub5(t, <<0, v[1], v[2], v[3], v[4]>>))
    ELSE [q |-> q, r |-> Low4(Sub5(n, t))]

\* The trial quotient limb of r * Base by v.
TrialQuotient(r, v) ==
    IF (r[1] * Base + r[2]) \div v[1] >= Base THEN Base - 1
    ELSE (r[1] * Base + r[2]) \div v[1]

\* One step of long division: quotient limb q and remainder r of r * Base by
\* v, for r < v and v[1] >= Base / 2.
DivStep(r, v) ==
    FixQuotient(<<r[1], r[2], r[3], r[4], 0>>, v, TrialQuotient(r, v),
                MulLimb(v, TrialQuotient(r, v)))

\* Four steps of long division: step is the last step made, qs the quotient
\* limbs before it.
RECURSIVE DivLoop(_, _, _, _)
DivLoop(step, v, qs, q0) ==
    IF Len(qs) = 3
    THEN [q0 |-> q0, q |-> Append(qs, step.q), exact |-> step.r = <<0, 0, 0, 0>>]
    ELSE DivLoop(DivStep(step.r, v), v, Append(qs, step.q), q0)

\* floor(g * Base^4 / v) as limbs q0 (0 or 1), q[1..4], and whether the
\* division left no remainder; g < 2 * v and v[1] >= Base / 2.
LongDiv(g, v) ==
    IF LimbsLess(g, v) THEN DivLoop(DivStep(g, v), v, <<>>, 0)
    ELSE DivLoop(DivStep(Low4(Sub5(<<0, g[1], g[2], g[3], g[4]>>,
                                   <<0, v[1], v[2], v[3], v[4]>>)), v),
                 v, <<>>, 1)

\* The double of the quotient d times 2^(e - 56).
DivRound(d, e) ==
    IF d.q0 = 1
    THEN RoundPack(HalfLimbs(<<1, d.q[1], d.q[2], d.q[3], d.q[4]>>),
                   ~d.exact \/ d.q[4] % 2 = 1, e + 1)
    ELSE RoundPack(d.q, ~d.exact, e)

\* a / b, b non-zero.
FDiv(a, b) ==
    IF IsZero(a) THEN FZero
    ELSE DivRound(LongDiv(a.f, b.f), a.e - b.e)

\* The integer square root of n by bisection, lo <= sqrt(n) < hi.
RECURSIVE FloorSqrt(_, _, _)
FloorSqrt(n, lo, hi) ==
    IF hi - lo <= 1 THEN lo
    ELSE IF ((lo + hi) \div 2) * ((lo + hi) \div 2) <= n
    THEN FloorSqrt(n, (lo + hi) \div 2, hi)
    ELSE FloorSqrt(n, lo, (lo + hi) \div 2)

\* x + q0 * Base^4 + q as five limbs.
AddQuotient(x, d) ==
    LET z == Carried(<<x[1] + d.q[1], x[2] + d.q[2], x[3] + d.q[3], x[4] + d.q[4]>>,
                     0, <<>>)
    IN <<z[1] + d.q0, z[2], z[3], z[4], z[5]>>

\* Newton's iteration for floor(sqrt(g * Base^4)) from x at or above the root:
\* with d = floor(g * Base^4 / x), the next iterate is y = (x + d) / 2, and
\* the first iterate that does not decrease is the root.
RECURSIVE NewtonStep(_, _, _, _)
NewtonStep(g, x, d, y) ==
    IF y[1] < Base /\ LimbsLess(y, x)
    THEN NewtonStep(g, y, LongDiv(g, y), HalfLimbs(AddQuotient(y, LongDiv(g, y))))
    ELSE [x |-> x, exact |-> d.exact /\ d.q0 = 0 /\ d.q = x]

\* floor(sqrt(g * Base^4)) and whether it is the exact root, from x at or
\* above the root.
NewtonSqrt(g, x) ==
    NewtonStep(g, x, LongDiv(g, x), HalfLimbs(AddQuotient(x, LongDiv(g, x))))

\* An integer of four limbs at or above sqrt(g * Base^4).
SqrtStart(s) ==
    IF s >= Base THEN <<Base - 1, Base - 1, Base - 1, Base - 1>>
    ELSE <<s, 0, 0, 0>>

\* The double of the root r times 2^(e - 56).
SqrtRound(r, e) == RoundPack(r.x, ~r.exact, e)

\* sqrt(g * Base^4) * 2^(e - 56), 2^54 <= g < 2^56.
SqrtLimbs(g, e) ==
    SqrtRound(NewtonSqrt(g, SqrtStart(FloorSqrt(g[1] * Base + g[2], 0, Base) + 1)), e)

\* sqrt(a): the significand is halved when the exponent is odd.
FSqrt(a) ==
    IF IsZero(a) THEN FZero
    ELSE IF a.e % 2 = 1
    THEN SqrtLimbs(HalfLimbs(<<0, a.f[1], a.f[2], a.f[3], a.f[4]>>), (a.e + 1) \div 2)
    ELSE SqrtLimbs(a.f, a.e \div 2)

\* SAMPLE_QUESTIONS[qtype].sample_answers, each text as its whitespace-split words.
SAMPLE_QUESTIONS ==
  "python" :>
    << Str(<<"Inheritance", "is", "a", "mechanism", "that", "allows",
            "a", "class", "to", "inherit", "attributes", "and",
            "methods", "from", "another", "class.", "For", "example,",
            "class", "Dog(Animal)", "inherits", "from", "Animal", "class,",
            "getting", "its", "properties", "like", "'speak'", "and",
            "'eat'.">>),
       Str(<<"Python", "inheritance", "is", "when", "one", "class",
            "takes", "on", "the", "attributes", "and", "methods",
            "of", "another", "class.", "The", "class", "that",
            "inherits", "is", "called", "child", "class,", "while",
            "the", "class", "being", "inherited", "from", "is",
            "the", "parent", "class.">>) >>
  @@
  "database" :>
    << Str(<<"Database", "normalization", "is", "the", "process", "of",
            "organizing", "data", "to", "minimize", "redundancy.", "It",
            "involves", "dividing", "large", "tables", "into", "smaller",
            "ones", "and", "defining", "relationships", "between", "them.">>),
       Str(<<"Normalization", "is", "a", "technique", "used", "in",
            "database", "design", "to", "reduce", "data", "redundancy",
            "and", "ensure", "data", "integrity.", "It", "follows",
            "normal", "forms", "like", "1NF,", "2NF,", "and",
            "3NF", "to", "structure", "the", "database", "efficiently.">>) >>
  @@
  "networking" :>
    << Str(<<"TCP/IP", "is", "a", "suite", "of", "communication",
            "protocols", "used", "to", "interconnect", "network", "devices",
            "on", "the", "internet.", "TCP", "ensures", "reliable",
            "data", "delivery", "while", "IP", "handles", "addressing",
            "and", "routing.">>),
       Str(<<"The", "TCP/IP", "protocol", "is", "the", "fundamental",
            "communication", "protocol", "of", "the", "internet.", "It",
            "uses", "a", "layered", "approach", "and", "includes",
            "protocols", "like", "TCP", "for", "data", "transfer",
            "and", "IP", "for", "routing.">>) >>

stop_words ==
    {"a", "about", "above", "after", "again", "against", "ain", "all",
     "am", "an", "and", "any", "are", "aren", "aren't", "as",
     "at", "be", "because", "been", "before", "being", "below", "between",
     "both", "but", "by", "can", "couldn", "couldn't", "d", "did",
     "didn", "didn't", "do", "does", "doesn", "doesn't", "doing", "don",
     "don't", "down", "during", "each", "few", "for", "from", "further",
     "had", "hadn", "hadn't", "has", "hasn", "hasn't", "have", "haven",
     "haven't", "having", "he", "her", "here", "hers", "herself", "him",
     "himself", "his", "how", "i", "if", "in", "into", "is",
     "isn", "isn't", "it", "it's", "its", "itself", "just", "ll",
     "m", "ma", "me", "mightn", "mightn't", "more", "most", "mustn",
     "mustn't", "my", "myself", "needn", "needn't", "no", "nor", "not",
     "now", "o", "of", "off", "on", "once", "only", "or",
     "other", "our", "ours", "ourselves", "out", "over", "own", "re",
     "s", "same", "shan", "shan't", "she", "she's", "should", "should've",
     "shouldn", "shouldn't", "so", "some", "such", "t", "than", "that",
     "that'll", "the", "their", "theirs", "them", "themselves", "then", "there",
     "these", "they", "this", "those", "through", "to", "too", "under",
     "until", "up", "ve", "very", "was", "wasn", "wasn't", "we",
     "were", "weren", "weren't", "what", "when", "where", "which", "while",
     "who", "whom", "why", "will", "with", "won", "won't", "wouldn",
     "wouldn't", "y", "you", "you'd", "you'll", "you're", "you've", "your",
     "yours", "yourself", "yourselves"}

\* str.lower() on the words that occur; a word without upper-case letters is unchanged.
Lower(w) ==
    CASE w = "1NF," -> "1nf,"
      [] w = "2NF," -> "2nf,"
      [] w = "3NF" -> "3nf"
      [] w = "Animal" -> "animal"
      [] w = "Database" -> "database"
      [] w = "Dog(Animal)" -> "dog(animal)"
      [] w = "For" -> "for"
      [] w = "IP" -> "ip"
      [] w = "Inheritance" -> "inheritance"
      [] w = "It" -> "it"
      [] w = "Normalization" -> "normalization"
      [] w = "Python" -> "python"
      [] w = "TCP" -> "tcp"
      [] w = "TCP/IP" -> "tcp/ip"
      [] w = "The" -> "the"
      [] OTHER -> w

\* The matches of the vectorizer's token pattern (two or more word
\* characters) in a lower-cased word; a word of letters and digits is its
\* own single match.
VTerms(w) ==
    CASE w = "'eat'." -> <<"eat">>
      [] w = "'speak'" -> <<"speak">>
      [] w = "1nf," -> <<"1nf">>
      [] w = "2nf," -> <<"2nf">>
      [] w = "a" -> <<>>
      [] w = "class," -> <<"class">>
      [] w = "class." -> <<"class">>
      [] w = "dog(animal)" -> <<"dog", "animal">>
      [] w = "efficiently." -> <<"efficiently">>
      [] w = "example," -> <<"example">>
      [] w = "integrity." -> <<"integrity">>
      [] w = "internet." -> <<"internet">>
      [] w = "redundancy." -> <<"redundancy">>
      [] w = "routing." -> <<"routing">>
      [] w = "tcp/ip" -> <<"tcp", "ip">>
      [] w = "them." -> <<"them">>
      [] OTHER -> <<w>>

\* Two more answers: one without stop words, one that is mostly stop words.
ANS_PLAIN == Str(<<"polymorphism", "lets", "objects", "share", "common", "method",
        "names">>)
ANS_STOPPY == Str(<<"The", "the", "the", "the", "the", "the",
        "the", "the", "inheritance">>)

\* The terms of the texts above in the order of sorted(vocabulary).
Lexicon ==
    <<"1nf", "2nf", "3nf", "addressing", "allows", "and",
      "animal", "another", "approach", "attributes", "being", "between",
      "called", "child", "class", "common", "communication", "data",
      "database", "defining", "delivery", "design", "devices", "dividing",
      "dog", "eat", "efficiently", "ensure", "ensures", "example",
      "follows", "for", "forms", "from", "fundamental", "getting",
      "handles", "in", "includes", "inherit", "inheritance", "inherited",
      "inherits", "integrity", "interconnect", "internet", "into", "involves",
      "ip", "is", "it", "its", "large", "layered",
      "lets", "like", "mechanism", "method", "methods", "minimize",
      "names", "network", "normal", "normalization", "objects", "of",
      "on", "one", "ones", "organizing", "parent", "polymorphism",
      "process", "properties", "protocol", "protocols", "python", "reduce",
      "redundancy", "relationships", "reliable", "routing", "share", "smaller",
      "speak", "structure", "suite", "tables", "takes", "tcp",
      "technique", "that", "the", "them", "to", "transfer",
      "used", "uses", "when", "while">>

\* LogTable[n][df] is the double np.log((1 + n) / (1 + df)), for n documents of
\* which df hold the term.
LogTable ==
    << <<[e |-> 0, f |-> <<0, 0, 0, 0>>]>>,
       <<[e |-> -1, f |-> <<13286, 4598, 6131, 608>>],
         [e |-> 0, f |-> <<0, 0, 0, 0>>]>>,
       <<[e |-> 0, f |-> <<11356, 8575, 8007, 3960>>],
         [e |-> -1, f |-> <<9426, 12552, 9883, 7304>>],
         [e |-> 0, f |-> <<0, 0, 0, 0>>]>>,
       <<[e |-> 0, f |-> <<15012, 8312, 7196, 960>>],
         [e |-> 0, f |-> <<8369, 6013, 4130, 8848>>],
         [e |-> -2, f |-> <<14623, 15331, 13139, 4368>>],
         [e |-> 0, f |-> <<0, 0, 0, 0>>]>>,
       <<[e |-> 1, f |-> <<8999, 13629, 5536, 6232>>],
         [e |-> 0, f |-> <<11356, 8575, 8007, 3960>>],
         [e |-> -1, f |-> <<13286, 4598, 6131, 608>>],
         [e |-> -2, f |-> <<11948, 10248, 15506, 13224>>],
         [e |-> 0, f |-> <<0, 0, 0, 0>>]>>,
       <<[e |-> 1, f |-> <<10262, 10391, 5799, 11008>>],
         [e |-> 0, f |-> <<13882, 2099, 8533, 13520>>],
         [e |-> 0, f |-> <<9168, 12207, 3592, 1664>>],
         [e |-> -1, f |-> <<11025, 8556, 8806, 9336>>],
         [e |-> -2, f |-> <<10102, 6864, 2106, 5464>>],
         [e |-> 0, f |-> <<0, 0, 0, 0>>]>>,
       <<[e |-> 1, f |-> <<11356, 8575, 8007, 3960>>],
         [e |-> 0, f |-> <<16069, 14851, 12948, 15808>>],
         [e |-> 0, f |-> <<11356, 8575, 8007, 3960>>],
         [e |-> -1, f |-> <<15401, 1293, 1252, 13944>>],
         [e |-> -1, f |-> <<9426, 12552, 9883, 7304>>],
         [e |-> -2, f |-> <<8751, 1857, 1276, 9168>>],
         [e |-> 0, f |-> <<0, 0, 0, 0>>]>>,
       <<[e |-> 1, f |-> <<12321, 6586, 15261, 2288>>],
         [e |-> 1, f |-> <<8999, 13629, 5536, 6232>>],
         [e |-> 0, f |-> <<13286, 4598, 6131, 608>>],
         [e |-> 0, f |-> <<9630, 4861, 6942, 3616>>],
         [e |-> -1, f |-> <<13286, 4598, 6131, 608>>],
         [e |-> -1, f |-> <<8235, 1166, 5077, 14280>>],
         [e |-> -3, f |-> <<15438, 951, 1374, 5936>>],
         [e |-> 0, f |-> <<0, 0, 0, 0>>]>> >>

\* The double 0.3.
F03 == [e |-> -1, f |-> <<9830, 6553, 9830, 6552>>]

\* The double 0.5.
F05 == [e |-> 0, f |-> <<8192, 0, 0, 0>>]

\* The double 0.7.
F07 == [e |-> 0, f |-> <<11468, 13107, 3276, 13104>>]

\* The double 1.0.
F1 == [e |-> 1, f |-> <<8192, 0, 0, 0>>]

\* The double 30.
F30 == [e |-> 5, f |-> <<15360, 0, 0, 0>>]

\* The double 100.
F100 == [e |-> 7, f |-> <<12800, 0, 0, 0>>]

-----------------------------------------------------------------------------
(* The text pipeline *)

Range(s) == {s[i] : i \in DOMAIN s}

Last(s) == s[Len(s)]

RECURSIVE Flatten(_)
Flatten(ss) == IF ss = <<>> THEN <<>> ELSE Head(ss) \o Flatten(Tail(ss))

RECURSIVE SetToSeq(_)
SetToSeq(S) ==
    IF S = {} THEN <<>>
    ELSE <<CHOOSE y \in S : TRUE>> \o SetToSeq(S \ {CHOOSE y \in S : TRUE})

\* max() of the doubles s[k..]: best is the maximum so far, and a later
\* element replaces it only when it is greater.
RECURSIVE MaxFrom(_, _, _)
MaxFrom(s, k, best) ==
    IF k > Len(s) THEN best
    ELSE MaxFrom(s, k + 1, IF FLess(best, s[k]) THEN s[k] ELSE best)

\* max() of a non-empty sequence of doubles.
MaxOf(s) == MaxFrom(s, 2, s[1])

\* text.lower().split()
lower_split(text) == [i \in 1..Len(text.words) |-> Lower(text.words[i])]

IsStopWord(w) == w \in stop_words

\* preprocess_text: lower-case, split, drop stop words, join; a value without
\* .lower() raises inside the try and is returned as it is.
preprocess_text(text) ==
    IF text.kind = "string"
    THEN Str(SelectSeq(lower_split(text), LAMBDA w : ~IsStopWord(w)))
    ELSE text

\* TfidfVectorizer's analyzer: lower-case the document, then every match of
\* the token pattern.
analyze(text) ==
    Flatten([i \in 1..Len(text.words) |-> VTerms(Lower(text.words[i]))])

\* The analyzer on every document of texts.
RECURSIVE Analyzed(_, _)
Analyzed(texts, out) ==
    IF Len(out) = Len(texts) THEN out
    ELSE Analyzed(texts, Append(out, analyze(texts[Len(out) + 1])))

\* The set of terms of the documents.
Terms(docs) == UNION {Range(docs[j]) : j \in DOMAIN docs}

\* sorted(terms): the terms in the order of Lexicon.  Terms outside Lexicon
\* follow in no particular order.
Sorted(terms) ==
    SelectSeq(Lexicon, LAMBDA t : t \in terms) \o SetToSeq(terms \ Range(Lexicon))

\* sorted(vocabulary) of the documents.
feature_names(docs) == Sorted(Terms(docs))

Count(t, d) == Cardinality({i \in DOMAIN d : d[i] = t})

\* The number of documents that hold the term t.
DocumentFrequency(t, docs) ==
    Cardinality({j \in DOMAIN docs : \E i \in DOMAIN docs[j] : docs[j][i] = t})

\* idf(t) = np.log((1 + n) / (1 + df(t))) + 1
smooth_idf(n, df) == FAdd(LogTable[n][df], F1)

\* A row of a sparse matrix is the sequence of its stored entries, by
\* increasing column: the term t of the column and the value x.
Entry(t, x) == [t |-> t, x |-> x]

\* The tf * idf entries of document d over its terms ts: the loop
\* out[k] = count(ts[k]) * idf(ts[k]).
RECURSIVE Weighted(_, _, _, _)
Weighted(ts, d, docs, out) ==
    IF Len(out) = Len(ts) THEN out
    ELSE Weighted(ts, d, docs,
                  Append(out,
                         Entry(ts[Len(out) + 1],
                               FMul(FromInt(Count(ts[Len(out) + 1], d)),
                                    smooth_idf(Len(docs),
                                               DocumentFrequency(ts[Len(out) + 1],
                                                                 docs))))))

\* The loop sum_ += x * x over the entries of v: sums[k + 1] is sum_ after
\* k entries.
RECURSIVE SquareSums(_, _)
SquareSums(v, sums) ==
    IF Len(sums) > Len(v) THEN sums
    ELSE SquareSums(v, Append(sums, FAdd(Last(sums),
                                         FMul(v[Len(sums)].x, v[Len(sums)].x))))

\* The loop x /= norm over the entries of v.
RECURSIVE Divided(_, _, _)
Divided(v, norm, out) ==
    IF Len(out) = Len(v) THEN out
    ELSE Divided(v, norm,
                 Append(out, Entry(v[Len(out) + 1].t, FDiv(v[Len(out) + 1].x, norm))))

\* The row v divided by the square root of sum_, the sum of its squares; a
\* zero row is left as it is.
Normalized(v, sum_) ==
    IF IsZero(sum_) THEN v ELSE Divided(v, FSqrt(sum_), <<>>)

\* Row-wise L2 normalisation (inplace_csr_row_normalize_l2).
l2_normalize(v) == Normalized(v, Last(SquareSums(v, <<FZero>>)))

\* The L2-normalised tf * idf row of every document, over the vocabulary
\* features.
RECURSIVE Rows(_, _, _)
Rows(docs, features, out) ==
    IF Len(out) = Len(docs) THEN out
    ELSE Rows(docs, features,
              Append(out,
                     l2_normalize(
                         Weighted(SelectSeq(features,
                                            LAMBDA t : Count(t, docs[Len(out) + 1]) > 0),
                                  docs[Len(out) + 1], docs, <<>>))))

\* TfidfVectorizer().fit_transform(docs): one row per document.
fit_transform(docs) == Rows(docs, feature_names(docs), <<>>)

\* Whether row y stores an entry in the column of term t.
Holds(y, t) == \E k \in DOMAIN y : y[k].t = t

\* The value of the entry of row y in the column of term t.
ValueAt(y, t) == y[CHOOSE k \in DOMAIN y : y[k].t = t].x

\* The loop sum += x[t] * y[t] over the terms of x that y holds, by increasing
\* column: sums[k + 1] is the sum after k entries of x.
RECURSIVE DotSums(_, _, _)
DotSums(x, y, sums) ==
    IF Len(sums) > Len(x) THEN sums
    ELSE DotSums(x, y,
                 Append(sums,
                        IF Holds(y, x[Len(sums)].t)
                        THEN FAdd(Last(sums),
                                  FMul(x[Len(sums)].x, ValueAt(y, x[Len(sums)].t)))
                        ELSE Last(sums)))

\* The dot product of the normalised row xn with every row of ys, normalised.
RECURSIVE Dots(_, _, _)
Dots(xn, ys, out) ==
    IF Len(out) = Len(ys) THEN out
    ELSE Dots(xn, ys,
              Append(out, Last(DotSums(xn, l2_normalize(ys[Len(out) + 1]), <<FZero>>))))

\* cosine_similarity(x, ys)[0]: both sides are normalised again, then the dot
\* products are taken.
cosine_similarity(x, ys) == Dots(l2_normalize(x), ys, <<>>)

\* max(similarity_scores) * 100 for the rows vectors: the first is the
\* answer's, the others are what it is compared with.
MaxSimilarityOfRows(vectors) ==
    FMul(MaxOf(cosine_similarity(vectors[1], Tail(vectors))), F100)

\* max(similarity_scores) * 100 for the analysed documents docs.
max_similarity_of(docs) == MaxSimilarityOfRows(fit_transform(docs))
-----------------------------------------------------------------------------
(* The submissions file *)

NoFile == [kind |-> "absent", subs |-> <<>>]

JsonFile(subs) == [kind |-> "json", subs |-> subs]

\* A file that exists and does not hold one JSON document: opened for writing
\* and not yet written, or written over by two writers.
InvalidFile == [kind |-> "invalid", subs |-> <<>>]

\* load_submissions: [] when the file does not exist; json.load raises on a
\* file that is not a JSON document.
load_submissions(f) ==
    [raised |-> f.kind = "invalid", subs |-> f.subs]

Submission(ts, question, answer, similarity_score) ==
    [timestamp |-> ts, question |-> question, answer |-> answer,
     similarity_score |-> similarity_score]

-----------------------------------------------------------------------------
(* The values of the requests *)

ANS_SEED == SAMPLE_QUESTIONS["python"][2]

\* 'answer' values of the requests: the second python sample answer verbatim,
\* a short answer without stop words, an answer that is mostly stop words,
\* and a JSON number.
Answers == {ANS_SEED, ANS_PLAIN, ANS_STOPPY, JsonNumber}

\* 'question_type' values of the requests: a key of SAMPLE_QUESTIONS and a
\* string that is none.
QuestionTypes == {"python", "unknown_category"}

-----------------------------------------------------------------------------
(* check_plagiarism *)

\* SAMPLE_QUESTIONS.get(question_type, {}).get('sample_answers', [])
corpus_of(question_type) ==
    IF question_type \in DOMAIN SAMPLE_QUESTIONS
    THEN SAMPLE_QUESTIONS[question_type] ELSE <<>>

\* corpus + previous_answers: the sample answers of the question type (none
\* for an unknown type), then the answer of every stored submission.
all_texts_of(question_type, submissions) ==
    corpus_of(question_type)
    \o [i \in 1..Len(submissions) |-> submissions[i].answer]

\* The lists [answer] + all_texts of strings that the requests of a behaviour
\* can hand to the vectorizer, and the score of each, worked out once.
ScoredTexts ==
    LET strings == {a \in Answers : a.kind = "string"}
    IN {<<preprocess_text(a)>> \o corpus_of(q) \o s :
          a \in strings, q \in QuestionTypes,
          s \in UNION {[1..k -> strings] : k \in 0..(MaxRequests - 1)}}
       \ {<<preprocess_text(a)>> : a \in strings}

MaxSimilarity ==
    [texts \in ScoredTexts |-> max_similarity_of(Analyzed(texts, <<>>))]

\* What any exception inside check_plagiarism returns.
Fallback(outcome, all_texts) ==
    [max_similarity |-> FZero, is_original |-> TRUE,
     all_texts |-> all_texts, outcome |-> outcome]

\* Lines 103-105: the score and the verdict.
Verdict(max_similarity, all_texts) ==
    [max_similarity |-> max_similarity,
     is_original |-> FLess(max_similarity, F30),
     all_texts |-> all_texts, outcome |-> "ok"]

\* Lines 100-102 on the analysed documents docs of texts: fit_transform
\* raises on an empty vocabulary.
Vectorized(texts, docs, all_texts) ==
    IF \A i \in DOMAIN docs : docs[i] = <<>>
    THEN Fallback("vectorizer_error", all_texts)
    ELSE Verdict(IF texts \in ScoredTexts THEN MaxSimilarity[texts]
                 ELSE max_similarity_of(docs),
                 all_texts)

\* Lines 97-105 on all_texts: nothing to compare with returns (0.0, True);
\* fit_transform raises on a document that is no string.
Compared(answer, all_texts) ==
    IF all_texts = <<>> THEN Fallback("empty", all_texts)
    ELSE IF answer.kind # "string" \/ \E i \in DOMAIN all_texts : all_texts[i].kind # "string"
    THEN Fallback("vectorizer_error", all_texts)
    ELSE Vectorized(<<answer>> \o all_texts,
                    Analyzed(<<answer>> \o all_texts, <<>>), all_texts)

\* check_plagiarism(answer, question_type), reading the file as `loaded`.
\* outcome names the path taken: "load_error" (load_submissions raised),
\* "empty" (no texts to compare with), "vectorizer_error" (fit_transform
\* raised: a document that is no string, or an empty vocabulary), "ok".
check_plagiarism(answer, question_type, loaded) ==
    IF loaded.raised THEN Fallback("load_error", <<>>)
    ELSE Compared(answer, all_texts_of(question_type, loaded.subs))

-----------------------------------------------------------------------------
(* calculate_english_quality and the accuracy *)

\* calculate_english_quality with a bug: the quality of the preprocessed text.
english_quality_preprocessed(text) ==
    IF text.kind # "string" THEN FZero
    ELSE LET words == preprocess_text(text).words
         IN IF Len(words) < 20 THEN F05
            ELSE FDiv(FromInt(Cardinality(Range(words))), FromInt(Len(words)))

\* calculate_english_quality: 0.5 under 20 words, else distinct / total of the
\* lower-cased words; 0.0 when .lower() raises.
calculate_english_quality(text) ==
    IF text.kind # "string" THEN FZero
    ELSE LET words == lower_split(text)
         IN IF Len(words) < 20 THEN F05
            ELSE FDiv(FromInt(Cardinality(Range(words))), FromInt(Len(words)))

\* The accuracy with a bug: the two originality weights the wrong way round.
accuracy_swapped(is_original, english_quality) ==
    FAdd(IF is_original THEN F03 ELSE F07, FMul(english_quality, F03))

\* (0.7 if is_original else 0.3) + (english_quality * 0.3)
accuracy_of(is_original, english_quality) ==
    FAdd(IF is_original THEN F07 ELSE F03, FMul(english_quality, F03))

-----------------------------------------------------------------------------
(* request.json *)

\* request.json: nothing (None), a JSON object with some of the two keys, or
\* a JSON number other than 0.
NoPayload ==
    [kind |-> "none", keys |-> {}, answer |-> Str(<<>>), question_type |-> ""]

NumberPayload ==
    [kind |-> "number", keys |-> {}, answer |-> Str(<<>>), question_type |-> ""]

ObjectPayload(keys, answer, question_type) ==
    [kind |-> "object", keys |-> keys,
     answer |-> IF "answer" \in keys THEN answer ELSE Str(<<>>),
     question_type |-> IF "question_type" \in keys THEN question_type ELSE ""]

Payloads ==
    {NoPayload, NumberPayload}
    \cup {ObjectPayload({"answer", "question_type"}, a, q) :
            a \in Answers, q \in QuestionTypes}
    \cup {ObjectPayload({}, ANS_PLAIN, "python"),
          ObjectPayload({"answer"}, ANS_PLAIN, "python"),
          ObjectPayload({"question_type"}, ANS_PLAIN, "python")}

\* `not data or 'answer' not in data or 'question_type' not in data`:
\* "client_error" when it is true, "type_error" when `in` raises TypeError (a
\* number is not iterable), "ok" when the handler goes on.
validate(data) ==
    IF data.kind = "none" \/ (data.kind = "object" /\ data.keys = {})
    THEN "client_error"
    ELSE IF data.kind = "number" THEN "type_error"
    ELSE IF "answer" \notin data.keys \/ "question_type" \notin data.keys
    THEN "client_error"
    ELSE "ok"

-----------------------------------------------------------------------------
(* The handlers, step by step on each request thread *)

\* A call: the request, the handler's locals and the response.  status is the
\* HTTP status (0: no response yet); computed tells whether the text pipeline
\* ran.
Call(op, data, status, computed, preprocessed_answer, check, english_quality, accuracy) ==
    [op |-> op, data |-> data, status |-> status, computed |-> computed,
     preprocessed_answer |-> preprocessed_answer,
     all_texts |-> check.all_texts, outcome |-> check.outcome,
     is_original |-> check.is_original,
     similarity_score |-> check.max_similarity,
     english_quality |-> english_quality, accuracy |-> accuracy]

NoCheck == [max_similarity |-> FZero, is_original |-> FALSE,
            all_texts |-> <<>>, outcome |-> "none"]

NoCall == Call("none", NoPayload, 0, FALSE, Str(<<>>), NoCheck, FZero, FZero)

\* jsonify({'error': ...}) with the status given.
ErrorCall(data, status) ==
    Call("evaluate", data, status, FALSE, Str(<<>>), NoCheck, FZero, FZero)

TypeOK ==
    /\ file.kind \in {"absent", "json", "invalid"}
    /\ now \in 0..MaxRequests
    /\ n_success \in 0..MaxRequests
    /\ \A w \in Workers :
          /\ wk[w].pc \in {"idle", "check", "save_load", "save_open", "save_write", "done"}
          /\ wk[w].call.status \in {0, 200, 400, 500}

\* No file, no request; stored is the list of the last complete document
\* written to the file and n_success the number of 200 responses to
\* /evaluate, both kept for the properties.
Init ==
    /\ file = NoFile
    /\ stored = <<>>
    /\ now = 0
    /\ n_success = 0
    /\ wk = [w \in Workers |->
               [pc |-> "idle", call |-> NoCall, submissions |-> <<>>]]

SetWorker(w, pc, call, submissions) ==
    wk' = [wk EXCEPT ![w] = [pc |-> pc, call |-> call, submissions |-> submissions]]

\* GET /questions: the type and question of every entry of SAMPLE_QUESTIONS.
GetQuestions(w) ==
    /\ wk[w].pc = "idle"
    /\ SetWorker(w, "done",
                 Call("questions", NoPayload, 200, FALSE, Str(<<>>), NoCheck,
                      FZero, FZero),
                 <<>>)
    /\ UNCHANGED <<file, stored, now, n_success>>

\* POST /evaluate, lines 137-147: the guard, then preprocess_text.
Receive(w, data) ==
    /\ wk[w].pc = "idle"
    /\ now < MaxRequests
    /\ now' = now + 1
    /\ LET v == validate(data)
       IN IF v = "client_error" THEN SetWorker(w, "done", ErrorCall(data, 400), <<>>)
          ELSE IF v = "type_error" THEN SetWorker(w, "done", ErrorCall(data, 500), <<>>)
          ELSE SetWorker(w, "check",
                         Call("evaluate", data, 0, TRUE,
                              preprocess_text(data.answer), NoCheck, FZero, FZero),
                         <<>>)
    /\ UNCHANGED <<file, stored, n_success>>

\* The call after lines 150-156: the check, the quality and the accuracy.
Checked(c, check, english_quality) ==
    Call("evaluate", c.data, 0, TRUE, c.preprocessed_answer, check, english_quality,
         accuracy_of(check.is_original, english_quality))

\* Lines 150-156: check_plagiarism, which reads the file, then the quality
\* and the accuracy.
CheckPlagiarism(w) ==
    /\ wk[w].pc = "check"
    /\ SetWorker(w, "save_load",
                 Checked(wk[w].call,
                         check_plagiarism(wk[w].call.preprocessed_answer,
                                          wk[w].call.data.question_type,
                                          load_submissions(file)),
                         calculate_english_quality(wk[w].call.data.answer)),
                 <<>>)
    /\ UNCHANGED <<file, stored, now, n_success>>

\* Lines 66-72: save_submission reads the file and appends to its own list;
\* json.load raising ends the request with status 500.
SaveLoad(w) ==
    /\ wk[w].pc = "save_load"
    /\ LET c == wk[w].call
           loaded == load_submissions(file)
       IN IF loaded.raised
          THEN SetWorker(w, "done", [c EXCEPT !.status = 500], <<>>)
          ELSE SetWorker(w, "save_open", c,
                         Append(loaded.subs,
                                Submission(now, c.data.question_type, c.data.answer,
                                           c.similarity_score)))
    /\ UNCHANGED <<file, stored, now, n_success>>

\* Line 73: open(SUBMISSIONS_FILE, 'w') truncates the file.
SaveOpen(w) ==
    /\ wk[w].pc = "save_open"
    /\ file' = InvalidFile
    /\ SetWorker(w, "save_write", wk[w].call, wk[w].submissions)
    /\ UNCHANGED <<stored, now, n_success>>

\* Line 74 and the end of the with block, then the 200 response: the list is
\* written from offset 0.  Over a document another thread wrote since the
\* truncation, a shorter document leaves the other's tail behind; the byte
\* lengths decide.
SaveWrite(w) ==
    /\ wk[w].pc = "save_write"
    /\ \/ /\ file' = JsonFile(wk[w].submissions)
          /\ stored' = wk[w].submissions
       \/ /\ file.kind = "json"
          /\ file' = InvalidFile
          /\ stored' = stored
    /\ n_success' = n_success + 1
    /\ SetWorker(w, "done", [wk[w].call EXCEPT !.status = 200], <<>>)
    /\ UNCHANGED now

\* The response is sent and the thread is free again.
Return(w) ==
    /\ wk[w].pc = "done"
    /\ SetWorker(w, "idle", NoCall, <<>>)
    /\ UNCHANGED <<file, stored, now, n_success>>

Next ==
    \E w \in Workers :
        \/ GetQuestions(w)
        \/ \E data \in Payloads : Receive(w, data)
        \/ CheckPlagiarism(w)
        \/ SaveLoad(w)
        \/ SaveOpen(w)
        \/ SaveWrite(w)
        \/ Return(w)

Spec == Init /\ [][Next]_vars


-----------------------------------------------------------------------------
(* Properties *)

Success(c) == c.op = "evaluate" /\ c.status = 200

\* The requests that have been answered with a success result.
Succeeded == {w \in Workers : wk[w].pc = "done" /\ Success(wk[w].call)}

IsPrefix(s, t) == Len(s) <= Len(t) /\ SubSeq(t, 1, Len(s)) = s

AllDone == \A w \in Workers : wk[w].pc \in {"idle", "done"}

\* The payload has no 'answer' or no 'question_type' field (or is absent).
LacksField(data) ==
    data.kind # "object" \/ ~({"answer", "question_type"} \subseteq data.keys)

\* The raw answers of the records subs, in order.
AnswersOf(subs) == [i \in 1..Len(subs) |-> subs[i].answer]

\* C1: concurrent evaluations lose no append and never read a partly written
\* store: once every request has ended the store holds one record for each
\* evaluation that succeeded, and no load_submissions raised on a store that
\* another thread was writing.
C1_NoLostAppends ==
    /\ AllDone => (file.kind # "invalid" /\ Len(file.subs) = n_success)
    /\ \A w \in Workers :
          /\ wk[w].call.outcome # "load_error"
          /\ ~(wk[w].call.computed /\ wk[w].call.status = 500)

\* C2: every step leaves the stored records as a prefix of the new store, and
\* the step that ends a successful evaluation, original or not, appends
\* exactly one record with the category, the raw answer and the similarity it
\* returns.
C2_AppendOnly ==
    [][/\ IsPrefix(stored, stored')
       /\ \A w \in Workers :
             (wk[w].pc = "save_write" /\ Success(wk'[w].call)) =>
                /\ stored' = Append(stored, Last(wk[w].submissions))
                /\ Last(stored').question = wk'[w].call.data.question_type
                /\ Last(stored').answer = wk'[w].call.data.answer
                /\ Last(stored').similarity_score = wk'[w].call.similarity_score]_vars

\* C3: a success result is never computed from the fallback that
\* check_plagiarism returns when reading the store failed.
C3_LoadFailureNotMasked ==
    \A w \in Succeeded : wk[w].call.outcome # "load_error"

\* C4: a request whose payload lacks a required field is answered with status
\* 400 at once, without any computation and without touching the store.
C4_MissingFieldIsClientError ==
    [][\A w \in Workers :
          (/\ wk[w].pc = "idle"
           /\ wk'[w].call.op = "evaluate"
           /\ LacksField(wk'[w].call.data))
          => /\ wk'[w].pc = "done"
             /\ wk'[w].call.status = 400
             /\ ~wk'[w].call.computed
             /\ file' = file]_vars

\* C5: when an evaluation reads a store whose last record holds the same
\* answer under the same category, the similarity it measures is at least the
\* similarity measured for that record.
C5_MonotonicDetectability ==
    [][\A w \in Workers :
          (/\ wk[w].pc = "check"
           /\ wk'[w].pc = "save_load"
           /\ file.kind = "json"
           /\ Last(file.subs).answer = wk[w].call.data.answer
           /\ Last(file.subs).question = wk[w].call.data.question_type)
          => FLessEq(Last(file.subs).similarity_score,
                     wk'[w].call.similarity_score)]_vars

\* C6: the comparison set of an evaluation is the sample answers of its
\* category (none for an unknown one) followed by the raw answer of every
\* record stored so far, in order, whatever category each was stored under.
C6_ComparisonSet ==
    [][\A w \in Workers :
          (wk[w].pc = "check" /\ wk'[w].pc = "save_load") =>
             wk'[w].call.all_texts =
                (IF wk[w].call.data.question_type \in {"python", "database", "networking"}
                 THEN SAMPLE_QUESTIONS[wk[w].call.data.question_type] ELSE <<>>)
                \o AnswersOf(stored)]_vars

\* C7: every success result has similarity_score in [0, 100], english_quality
\* in [0, 1] and accuracy in [0.3, 1.0].
C7_ResultRanges ==
    \A w \in Succeeded :
        /\ FLessEq(FZero, wk[w].call.similarity_score)
        /\ FLessEq(wk[w].call.similarity_score, F100)
        /\ FLessEq(FZero, wk[w].call.english_quality)
        /\ FLessEq(wk[w].call.english_quality, F1)
        /\ FLessEq(F03, wk[w].call.accuracy)
        /\ FLessEq(wk[w].call.accuracy, F1)

\* C8: in a success result is_original holds exactly when similarity_score is
\* under 30, accuracy is (0.7 if is_original else 0.3) + 0.3 * english_quality,
\* and on the fallback paths similarity_score is 0 and is_original is true.
C8_ResultConsistent ==
    \A w \in Succeeded :
        /\ wk[w].call.is_original <=> FLess(wk[w].call.similarity_score, F30)
        /\ wk[w].call.accuracy =
              FAdd(IF wk[w].call.is_original THEN F07 ELSE F03,
                   FMul(F03, wk[w].call.english_quality))
        /\ wk[w].call.outcome \in {"empty", "vectorizer_error"} =>
              (wk[w].call.similarity_score = FZero /\ wk[w].call.is_original)

\* C8 witness: a success result computed on a fallback path, after one that
\* was judged not original.
C8_Witness ==
    \E w \in Succeeded :
        /\ wk[w].call.outcome = "vectorizer_error"
        /\ Len(stored) = 2
        /\ ~FLess(stored[1].similarity_score, F30)

\* C9 as stated: under 20 whitespace tokens the quality is 0.5, from 20 on it
\* is the number of distinct tokens of the raw answer over the number of tokens.
C9_QualityOfRawTokens ==
    \A w \in Succeeded :
        wk[w].call.data.answer.kind = "string" =>
            wk[w].call.english_quality =
                IF Len(wk[w].call.data.answer.words) < 20 THEN F05
                ELSE FDiv(FromInt(Cardinality(Range(wk[w].call.data.answer.words))),
                          FromInt(Len(wk[w].call.data.answer.words)))

\* C9 amended: for a string answer, under 20 whitespace tokens the quality is
\* 0.5, from 20 on it is the number of distinct lower-cased tokens over the
\* number of tokens; stop words count.
C9_QualityOfLoweredTokens ==
    \A w \in Succeeded :
        wk[w].call.data.answer.kind = "string" =>
            wk[w].call.english_quality =
                IF Len(wk[w].call.data.answer.words) < 20 THEN F05
                ELSE FDiv(FromInt(Cardinality({Lower(t) :
                                      t \in Range(wk[w].call.data.answer.words)})),
                          FromInt(Len(wk[w].call.data.answer.words)))

\* C9 witness: a success result for an answer of 20 tokens or more that holds
\* a stop word and two tokens that differ only in case.
C9_Witness ==
    \E w \in Succeeded :
        /\ wk[w].call.data.answer.kind = "string"
        /\ Len(wk[w].call.data.answer.words) >= 20
        /\ {"The", "the"} \subseteq Range(wk[w].call.data.answer.words)
        /\ wk[w].call.english_quality # F05

\* C10: no recorded answer stops later evaluations from comparing: a later
\* string answer is scored against its comparison set, not by the fallback,
\* and an answer equal to a sample answer of its category is not original.
C10_NoPoisonedStore ==
    \A w \in Succeeded :
        (wk[w].call.data.answer.kind = "string" /\ wk[w].call.all_texts # <<>>)
        => /\ wk[w].call.outcome = "ok"
           /\ (wk[w].call.data.answer = ANS_SEED
               /\ \E i \in DOMAIN wk[w].call.all_texts :
                     wk[w].call.all_texts[i] = ANS_SEED)
              => ~wk[w].call.is_original
====
